---- MODULE Spec2Model ----
(***************************************************************************)
(* Output assembly and ranking of square_skill_api.models.prediction:      *)
(* the QueryOutput constructor (root validator sort_predictions), the      *)
(* alignment helpers and the four conversion strategies.                   *)
(*                                                                         *)
(* Python values are modelled as follows.                                  *)
(*   - floats are integers (only their order and equality matter);         *)
(*   - a value whose type the code inspects (None, str, list, other) is a  *)
(*     tagged record: None, Str(s), List(l), Other;                        *)
(*   - a dict is a record; a key is present iff it is in its DOMAIN;       *)
(*   - a call either returns (status "ok") or raises (status "error").     *)
(***************************************************************************)
EXTENDS Integers, Sequences, FiniteSets

VARIABLES
    req,      \* the call under way: the operation and its arguments
    payload,  \* the mutable object handed to the call (model_api_output / list)
    ret       \* what the latest call returned or raised

vars == <<req, payload, ret>>

-----------------------------------------------------------------------------
(* Bounds of the model *)

MaxN == 3       \* longest list of predictions / logits / answers / questions
MaxCands == 2   \* most candidate answers in one question-answering payload

Scores == {0, 1}          \* logits, candidates' scores
WideScores == {0, 1, 2}   \* scores of the constructor's predictions, document
                          \* scores, scores given to the alignment helper
Outputs == {"a", "", "No answer found."}

-----------------------------------------------------------------------------
(* Program constants *)

NO_ANSWER_FOUND_STRING == "No answer found."

\* PredictionDocument.document_score = Field(0, ...)
DocumentScoreDefault == 0

\* sort_predictions_key: document_score = 1
KeyDocumentScoreDefault == 1

-----------------------------------------------------------------------------
(* Python values *)

None == [tag |-> "None"]
Str(s) == [tag |-> "str", v |-> s]
List(l) == [tag |-> "list", v |-> l]
Other == [tag |-> "other"]

\* bool(x) of a tagged value
Truthy(x) ==
    CASE x.tag = "None" -> FALSE
      [] x.tag = "str" -> x.v # ""
      [] x.tag = "list" -> x.v # <<>>
      [] OTHER -> TRUE

Ok(v) == [status |-> "ok", value |-> v]
Raise(e) == [status |-> "error", error |-> e]
NoRet == [status |-> "none"]

Min2(a, b) == IF a <= b THEN a ELSE b
Max2(a, b) == IF a >= b THEN a ELSE b

Repeat(x, n) == [i \in 1..n |-> x]

-----------------------------------------------------------------------------
(* The pydantic models *)

PredictionOutput(output, output_score) ==
    [output |-> output, output_score |-> output_score]

PredictionDocument(document, span, document_score) ==
    [index |-> "", document_id |-> "", document |-> document, span |-> span,
     url |-> "", source |-> "", document_score |-> document_score]

Prediction(question, prediction_score, prediction_output, prediction_documents) ==
    [question |-> question,
     prediction_score |-> prediction_score,
     prediction_output |-> prediction_output,
     prediction_documents |-> prediction_documents,
     prediction_graph |-> None,
     attributions |-> None]

Adversarial(indices) == [tag |-> "Adversarial", indices |-> indices]

\* Prediction.parse_obj(m) for a mapping m that has every required key:
\* the keys with a default are filled in when the mapping omits them.
ParseDocument(d) ==
    PredictionDocument(d.document, None,
        IF "document_score" \in DOMAIN d THEN d.document_score
        ELSE DocumentScoreDefault)

ParsePrediction(m) ==
    Prediction(m.question, m.prediction_score,
        PredictionOutput(m.prediction_output.output, m.prediction_output.output_score),
        IF "prediction_documents" \in DOMAIN m
        THEN [i \in 1..Len(m.prediction_documents) |->
                 ParseDocument(m.prediction_documents[i])]
        ELSE <<>>)

-----------------------------------------------------------------------------
(* QueryOutput.sort_predictions_key *)

\* A variant that takes only the empty output for "no answer".
sort_predictions_key_empty_only(p) ==
    IF p.kind = "Prediction"
    THEN Ok(<<p.v.prediction_output.output # "",
              p.v.prediction_score,
              IF p.v.prediction_documents # <<>>
              THEN p.v.prediction_documents[1].document_score
              ELSE KeyDocumentScoreDefault>>)
    ELSE Raise("TypeError")

\* p is [kind |-> "Prediction", v |-> a Prediction], [kind |-> "dict", v |-> a
\* mapping] or [kind |-> "other"].
sort_predictions_key(p) ==
    IF p.kind = "Prediction"
    THEN Ok(<<p.v.prediction_output.output \notin {"", NO_ANSWER_FOUND_STRING},
              p.v.prediction_score,
              IF p.v.prediction_documents # <<>>
              THEN p.v.prediction_documents[1].document_score
              ELSE KeyDocumentScoreDefault>>)
    ELSE IF p.kind = "dict"
    THEN IF "prediction_documents" \notin DOMAIN p.v
         THEN Raise("KeyError")
         ELSE Ok(<<p.v.prediction_output.output \notin {"", NO_ANSWER_FOUND_STRING},
                   p.v.prediction_score,
                   IF p.v.prediction_documents # <<>>
                   THEN IF "document_score" \in DOMAIN p.v.prediction_documents[1]
                        THEN p.v.prediction_documents[1].document_score
                        ELSE KeyDocumentScoreDefault
                   ELSE KeyDocumentScoreDefault>>)
    ELSE Raise("TypeError")

\* Python's order on the key tuples (False < True, then the two floats).
BoolLess(a, b) == ~a /\ b

KeyLess(k, l) ==
    \/ BoolLess(k[1], l[1])
    \/ k[1] = l[1] /\ k[2] < l[2]
    \/ k[1] = l[1] /\ k[2] = l[2] /\ k[3] < l[3]

TypedKey(p) == sort_predictions_key([kind |-> "Prediction", v |-> p]).value

-----------------------------------------------------------------------------
(* sorted(values["predictions"], key=cls.sort_predictions_key, reverse=True) *)

\* Python's sort is stable, also under reverse=True: an element goes before the
\* first element whose key is strictly smaller.
RECURSIVE InsertDescending(_, _)
InsertDescending(s, x) ==
    IF s = <<>> THEN <<x>>
    ELSE IF KeyLess(TypedKey(Head(s)), TypedKey(x))
         THEN <<x>> \o s
         ELSE <<Head(s)>> \o InsertDescending(Tail(s), x)

RECURSIVE SortedDescendingFrom(_, _)
SortedDescendingFrom(done, rest) ==
    IF rest = <<>> THEN done
    ELSE SortedDescendingFrom(InsertDescending(done, Head(rest)), Tail(rest))

sorted_reverse(predictions) == SortedDescendingFrom(<<>>, predictions)

\* A variant that sorts whether or not adversarial is given.
sort_predictions_always(predictions, adversarial) ==
    [predictions |-> sorted_reverse(predictions), adversarial |-> adversarial]

\* The root validator: the envelope QueryOutput(predictions=..., adversarial=...).
sort_predictions(predictions, adversarial) ==
    [predictions |-> IF adversarial = None THEN sorted_reverse(predictions)
                     ELSE predictions,
     adversarial |-> adversarial]

QueryOutput(predictions, adversarial) == sort_predictions(predictions, adversarial)

-----------------------------------------------------------------------------
(* QueryOutput.overwrite_from_model_api_output *)

overwrite_from_model_api_output(model_api_output, key, value, len) ==
    LET v == IF key \in DOMAIN model_api_output /\ Truthy(model_api_output[key])
             THEN model_api_output[key]
             ELSE value
    IN  IF v.tag = "str" THEN List(Repeat(v.v, len)) ELSE v

-----------------------------------------------------------------------------
(* QueryOutput._prediction_documents_iter_from_context *)

\* A variant that takes a list of any length as it is.
_prediction_documents_iter_unchecked(iter_len, context) ==
    CASE context.tag = "None" -> Ok(Repeat(<<>>, iter_len))
      [] context.tag = "str" ->
            Ok(Repeat(<<PredictionDocument(context.v, None, DocumentScoreDefault)>>,
                      iter_len))
      [] context.tag = "list" ->
            Ok([i \in 1..Len(context.v) |->
                   <<PredictionDocument(context.v[i], None, DocumentScoreDefault)>>])
      [] OTHER -> Raise("TypeError")

_prediction_documents_iter_from_context(iter_len, context) ==
    CASE context.tag = "None" -> Ok(Repeat(<<>>, iter_len))
      [] context.tag = "str" ->
            Ok(Repeat(<<PredictionDocument(context.v, None, DocumentScoreDefault)>>,
                      iter_len))
      [] context.tag = "list" ->
            IF Len(context.v) # iter_len
            THEN Raise("ValueError")
            ELSE Ok([i \in 1..Len(context.v) |->
                        <<PredictionDocument(context.v[i], None, DocumentScoreDefault)>>])
      [] OTHER -> Raise("TypeError")

-----------------------------------------------------------------------------
(* QueryOutput.extend_and_sort_attributions_to_scores *)

Permutations(n) ==
    {p \in [1..n -> 1..n] : \A i, j \in 1..n : p[i] = p[j] => i = j}

\* np.argsort(scores)[::-1]: positions (from 1) in descending order of score.
\* np.argsort's default kind is not a stable sort, so the order among equal
\* scores is whatever the build produces: every descending order is possible.
argsort_reversed(scores) ==
    {p \in Permutations(Len(scores)) :
        \A i, j \in 1..Len(scores) : i < j => scores[p[i]] >= scores[p[j]]}

\* sort_idx is the value np.argsort(scores)[::-1] took.  The call returns
\* `value` and leaves the caller's list object as `attributions` (extend() works
\* in place; the re-ordered list is a new object).
extend_and_sort_attributions_to_scores(scores, attributions, fill_value, sort_idx) ==
    LET len_diff == Len(scores) - Len(attributions)
        extended == attributions \o Repeat(fill_value, len_diff)
    IN  IF len_diff > 0
        THEN [value |-> [j \in 1..Len(scores) |->
                            extended[CHOOSE k \in 1..Len(scores) : sort_idx[k] = j]],
              attributions |-> extended]
        ELSE [value |-> attributions, attributions |-> attributions]

-----------------------------------------------------------------------------
(* QueryOutput.from_sequence_classification *)

\* model_api_output["adversarial"] parsed into the envelope's field.
ParseAdversarial(a) == IF a = None THEN None ELSE Adversarial(a.indices)

\* The envelope built last in a strategy: adversarial is passed on only when the
\* payload has the key.
EnvelopeFrom(predictions, model_api_output) ==
    IF "adversarial" \in DOMAIN model_api_output
    THEN QueryOutput(predictions, ParseAdversarial(model_api_output.adversarial))
    ELSE QueryOutput(predictions, None)

\* model_api_output.logits stands for model_api_output["model_outputs"]["logits"][0].
\* The result names what the call returned or raised (ret), the payload object
\* after the call (model_api_output) and the list handed to the constructor.
from_sequence_classification(questions, answers, model_api_output, context, sort_idx) ==
    LET n == Len(model_api_output.logits)
        qs == overwrite_from_model_api_output(model_api_output, "questions", questions, n)
        ctx == overwrite_from_model_api_output(model_api_output, "context", context, n)
        docs == _prediction_documents_iter_from_context(Len(answers), ctx)
    IN  IF docs.status = "error"
        THEN [ret |-> docs, model_api_output |-> model_api_output, handed |-> <<>>]
        ELSE
        LET predictions_scores == model_api_output.logits
            has == "attributions" \in DOMAIN model_api_output
            aligned == extend_and_sort_attributions_to_scores(
                           predictions_scores,
                           IF has THEN model_api_output.attributions ELSE <<>>,
                           None, sort_idx)
            after == IF has
                     THEN [model_api_output EXCEPT !.attributions = aligned.attributions]
                     ELSE model_api_output
            all_attributions == aligned.value
        IN  IF qs.tag # "list"
            THEN [ret |-> Raise("TypeError"), model_api_output |-> after, handed |-> <<>>]
            ELSE
            LET longest == Max2(Max2(Max2(Len(qs.v), n), Len(docs.value)),
                                Max2(Len(answers), Len(all_attributions)))
            IN  \* zip_longest pads with None, which the fields other than
                \* attributions refuse
                IF \/ Len(qs.v) < longest \/ n < longest \/ Len(answers) < longest
                   \/ Len(docs.value) < longest
                THEN [ret |-> Raise("ValidationError"), model_api_output |-> after,
                      handed |-> <<>>]
                ELSE
                LET predictions == [i \in 1..longest |->
                        [Prediction(qs.v[i], predictions_scores[i],
                                    PredictionOutput(answers[i], predictions_scores[i]),
                                    docs.value[i])
                         EXCEPT !.attributions =
                            IF i <= Len(all_attributions) /\ all_attributions[i] # None
                            THEN all_attributions[i] ELSE None]]
                IN  [ret |-> Ok(EnvelopeFrom(predictions, model_api_output)),
                     model_api_output |-> after, handed |-> predictions]

-----------------------------------------------------------------------------
(* QueryOutput.from_sequence_classification_with_graph *)

PredictionGraph(lm_subgraph, attn_subgraph) ==
    [tag |-> "PredictionGraph", lm_subgraph |-> lm_subgraph,
     attn_subgraph |-> attn_subgraph]

\* model_api_output.labels stands for model_api_output["labels"], whose first
\* entry is a position counted from 0.  zip() stops at the shortest input.
from_sequence_classification_with_graph(questions, answers, model_api_output) ==
    LET n == Len(model_api_output.logits)
        qs == overwrite_from_model_api_output(model_api_output, "questions", questions, n)
        predictions_scores == model_api_output.logits
    IN  IF qs.tag # "list"
        THEN [ret |-> Raise("TypeError"), model_api_output |-> model_api_output,
              handed |-> <<>>]
        ELSE
        LET shortest == Min2(Min2(Len(qs.v), n), Len(answers))
            predictions == [k \in 1..shortest |->
                [Prediction(qs.v[k], predictions_scores[k],
                            PredictionOutput(answers[k], predictions_scores[k]), <<>>)
                 EXCEPT !.prediction_graph =
                    IF k - 1 = model_api_output.labels[1]
                    THEN PredictionGraph(model_api_output.lm_subgraph,
                                         model_api_output.attn_subgraph)
                    ELSE None]]
        IN  [ret |-> Ok(QueryOutput(predictions, None)),
             model_api_output |-> model_api_output, handed |-> predictions]

-----------------------------------------------------------------------------
(* QueryOutput.from_question_answering *)

\* context_score_i = 1 if context_score is None
QAContextScoreDefault == 1

Float(x) == [tag |-> "float", v |-> x]

\* model_api_output.attributions stands for the lists attributions[0][k], one
\* entry per context; the Attributions of context_i (counted from 0).
get_attribution_by_context_i(attributions, context_i) ==
    IF context_i + 1 > Len(attributions.v)
    THEN Raise("IndexError")
    ELSE Ok(attributions.v[context_i + 1])

\* np.argmax(scores): the first position (from 1) of the largest score.
argmax(scores) ==
    CHOOSE i \in 1..Len(scores) :
        /\ \A j \in 1..Len(scores) : scores[j] <= scores[i]
        /\ \A j \in 1..(i - 1) : scores[j] < scores[i]

\* One pass of the outer loop: the predictions of pair i_context (from 1), or
\* the exception the pass raises.
QAPair(i_context, question, answers, attributions, context, context_score) ==
    LET failure ==
            IF context.tag = "list"
            THEN IF i_context > Len(context.v) THEN "IndexError"
                 ELSE IF context_score.tag # "list" THEN "TypeError"
                 ELSE IF i_context > Len(context_score.v) THEN "IndexError"
                 ELSE ""
            ELSE ""
        context_doc_i ==
            IF context.tag = "list" THEN context.v[i_context]
            ELSE IF context = None THEN "" ELSE context.v
        context_score_i ==
            IF context.tag = "list" THEN Float(context_score.v[i_context])
            ELSE IF context_score = None THEN Float(QAContextScoreDefault)
            ELSE context_score
    IN  IF failure # "" THEN Raise(failure)
        ELSE IF answers = <<>> THEN Raise("ValueError")
        ELSE IF context_doc_i # "" /\ context_score_i.tag # "float"
        THEN Raise("ValidationError")
        ELSE IF /\ Truthy(attributions)
                /\ get_attribution_by_context_i(attributions, i_context - 1).status = "error"
        THEN Raise("IndexError")
        ELSE
        LET scores == [k \in 1..Len(answers) |-> answers[k].score]
            top_answer_idx == argmax(scores)
        IN  Ok([k \in 1..Len(answers) |->
                [Prediction(question, scores[k],
                     PredictionOutput(IF answers[k].answer = ""
                                      THEN NO_ANSWER_FOUND_STRING
                                      ELSE answers[k].answer, scores[k]),
                     IF context_doc_i # ""
                     THEN <<PredictionDocument(context_doc_i,
                                <<answers[k].start, answers[k].end>>,
                                context_score_i.v)>>
                     ELSE <<>>)
                 EXCEPT !.attributions =
                    IF Truthy(attributions) /\ k = top_answer_idx
                    THEN get_attribution_by_context_i(attributions, i_context - 1).value
                    ELSE None]])

\* The outer loop from pair i on: the flattened predictions, or the first
\* exception.
RECURSIVE QALoop(_, _, _, _, _, _, _)
QALoop(i, last, qs, model_api_output, attributions, context, context_score) ==
    IF i > last THEN Ok(<<>>)
    ELSE LET pair == QAPair(i, qs[i], model_api_output.answers[i], attributions,
                            context, context_score)
         IN  IF pair.status = "error" THEN pair
             ELSE LET rest == QALoop(i + 1, last, qs, model_api_output, attributions,
                                     context, context_score)
                  IN  IF rest.status = "error" THEN rest
                      ELSE Ok(pair.value \o rest.value)

from_question_answering(questions, model_api_output, context, context_score) ==
    LET qs == overwrite_from_model_api_output(model_api_output, "questions", questions,
                                              Len(model_api_output.answers))
        attributions == IF "attributions" \in DOMAIN model_api_output
                        THEN model_api_output.attributions ELSE None
    IN  IF qs.tag # "list"
        THEN [ret |-> Raise("TypeError"), model_api_output |-> model_api_output,
              handed |-> <<>>]
        ELSE
        LET built == QALoop(1, Min2(Len(qs.v), Len(model_api_output.answers)), qs.v,
                            model_api_output, attributions, context, context_score)
        IN  IF built.status = "error"
            THEN [ret |-> built, model_api_output |-> model_api_output, handed |-> <<>>]
            ELSE [ret |-> Ok(EnvelopeFrom(built.value, model_api_output)),
                  model_api_output |-> model_api_output, handed |-> built.value]

-----------------------------------------------------------------------------
(* QueryOutput.from_generation *)

\* overwrite_from_model_api_output(questions, model_api_output, len=...): two
\* positional arguments and len bind model_api_output, key and len; the
\* parameter `value` has no default and gets no argument, so the call raises
\* TypeError before the function body runs.
overwrite_call_in_from_generation(questions, model_api_output, len) ==
    Raise("TypeError")

\* model_api_output.generated_texts stands for model_api_output["generated_texts"][0].
\* Prediction(...) is built without `question`, a required field.
from_generation(questions, model_api_output, context, context_score) ==
    LET qs == overwrite_call_in_from_generation(questions, model_api_output,
                  Len(model_api_output.generated_texts))
        texts == model_api_output.generated_texts
        attributions == IF "attributions" \in DOMAIN model_api_output
                        THEN model_api_output.attributions ELSE <<>>
        longest == Max2(Len(texts), Len(attributions))
    IN  IF qs.status = "error"
        THEN [ret |-> qs, model_api_output |-> model_api_output, handed |-> <<>>]
        ELSE IF longest > 0
        THEN [ret |-> Raise("ValidationError"), model_api_output |-> model_api_output,
              handed |-> <<>>]
        ELSE [ret |-> Ok(QueryOutput(<<>>, None)),
              model_api_output |-> model_api_output, handed |-> <<>>]

-----------------------------------------------------------------------------
(* The arguments and payloads the model calls the operations with *)

QuestionPool == <<"q1", "q2", "q3", "q4", "q5", "q6">>
OverridePool == <<"o1", "o2", "o3", "o4", "o5", "o6">>
ContextPool == <<"c1", "", "c3", "c4", "c5", "c6">>
AnswerPool == <<"a", "", "b", "No answer found.", "c", "d">>
ContextScorePool == <<2, 0, 1, 2, 0, 1>>

Prefix(pool, n) == SubSeq(pool, 1, n)

Attribution(k) == [tag |-> "Attributions", id |-> k]
AttributionList(m) == [k \in 1..m |-> Attribution(k)]

Lengths(n) == {k \in {n - 1, n, n + 1} : k >= 0}

\* Optional keys of a payload: the record base extended by key, or not.
WithKey(base, key, val) ==
    [k \in DOMAIN base \cup {key} |-> IF k = key THEN val ELSE base[k]]

WithOptional(bases, key, vals) ==
    bases \cup {WithKey(b, key, v) : b \in bases, v \in vals}

\* sort_predictions_key(p)
Mappings ==
    LET docs == {<<>>, <<[document |-> "d"]>>}
                \cup {<<[document |-> "d", document_score |-> t]>> : t \in WideScores}
        base == {[question |-> "q",
                  prediction_score |-> s,
                  prediction_output |-> [output |-> o, output_score |-> s]] :
                     s \in Scores, o \in Outputs}
    IN  WithOptional(base, "prediction_documents", docs)

KeyArguments ==
    {[kind |-> "dict", v |-> m] : m \in Mappings}
    \cup {[kind |-> "Prediction", v |-> ParsePrediction(m)] : m \in Mappings}
    \cup {[kind |-> "other"]}

\* QueryOutput(predictions=..., adversarial=...): what one prediction of the
\* list is made of (score, output text, documents).
PredictionChoices ==
    (WideScores \X Outputs
        \X {<<>>, <<PredictionDocument("d", None, DocumentScoreDefault)>>})
    \cup {<<1, "a", <<PredictionDocument("d", None, 2),
                      PredictionDocument("e", None, DocumentScoreDefault)>>>>}

\* The prediction at position i asks question i, so that predictions with equal
\* keys can be told apart.
PredictionList(f) ==
    [i \in 1..Len(f) |-> Prediction(QuestionPool[i], f[i][1],
                                    PredictionOutput(f[i][2], f[i][1]), f[i][3])]

ContextValues(n) ==
    {None, Str("c"), Str(""), Other}
    \cup {List(Prefix(ContextPool, k)) : k \in Lengths(n)}

QuestionValues(n) ==
    {Str("q")} \cup {List(Prefix(QuestionPool, k)) : k \in Lengths(n)}

\* The candidates of a question-answering payload, numbered through.
CandidateList(f) ==
    [k \in 1..Len(f) |-> [answer |-> f[k][1], score |-> f[k][2],
                          start |-> k - 1, end |-> k]]

\* ... split into one or two groups (one group per question/context pair).
Groupings(fl) ==
    {<<fl>>} \cup {<<SubSeq(fl, 1, k), SubSeq(fl, k + 1, Len(fl))>> : k \in 0..Len(fl)}

\* context and context_score as the caller pairs them, for g pairs.
QAContextArguments(g) ==
    ({None, Str("c"), Str(""), List(Prefix(ContextPool, g))}
        \X {None, Float(0), List(Prefix(ContextScorePool, g))})
    \cup {<<List(Prefix(ContextPool, g)), List(Prefix(ContextScorePool, g - 1))>>,
          <<List(Prefix(ContextPool, g - 1)), List(Prefix(ContextScorePool, g))>>}

Strategies ==
    {"from_sequence_classification", "from_sequence_classification_with_graph",
     "from_question_answering", "from_generation"}

-----------------------------------------------------------------------------
(* The state machine: a caller holds the arguments and the payload object and *)
(* makes the call, any number of times.                                       *)

Start(r, pl) ==
    /\ req = r
    /\ payload = pl
    /\ ret = NoRet

InitKey ==
    \E p \in KeyArguments :
        Start([op |-> "sort_predictions_key", p |-> p], None)

InitConstruct ==
    \E n \in 0..MaxN : \E f \in [1..n -> PredictionChoices] :
        \E adv \in {None, Adversarial(<<0>>)} :
            /\ adv # None => \A i \in 1..n : f[i][3] = <<>>
            /\ Start([op |-> "QueryOutput", predictions |-> PredictionList(f),
                      adversarial |-> adv], None)

InitDocumentsIter ==
    \E n \in 0..MaxN : \E k \in 0..MaxN : \E c \in ContextValues(k) :
        Start([op |-> "_prediction_documents_iter_from_context",
               iter_len |-> n, context |-> c], None)

\* The payload object is the attributions list; req.attributions is what the
\* list held when the latest call was made.  As many explanations as scores,
\* or one more.
InitExtend ==
    \E n \in 0..MaxN : \E sc \in [1..n -> WideScores] : \E m \in {n, n + 1} :
        Start([op |-> "extend_and_sort_attributions_to_scores", scores |-> sc,
               attributions |-> AttributionList(m)],
              AttributionList(m))

\* Fewer explanations than scores.
InitExtendFewer ==
    \E n \in 1..MaxN : \E sc \in [1..n -> WideScores] : \E m \in 0..(n - 1) :
        Start([op |-> "extend_and_sort_attributions_to_scores", scores |-> sc,
               attributions |-> AttributionList(m)],
              AttributionList(m))

\* Contexts, attributions and adversarial info over well-shaped questions and
\* answers.
InitClassification ==
    \E n \in 1..MaxN : \E lg \in [1..n -> Scores] :
        \E c \in ContextValues(n) :
            \E pl \in WithOptional(WithOptional(
                         {[logits |-> lg]},
                         "attributions", {AttributionList(m) : m \in 0..(n + 1)}),
                         "adversarial", {None, [indices |-> <<1, 0>>]}) :
                Start([op |-> "from_sequence_classification", questions |-> Str("q"),
                       answers |-> Prefix(AnswerPool, n), context |-> c], pl)

\* Questions, answers and overrides of every shape.
InitClassificationShapes ==
    \E n \in 1..MaxN : \E lg \in [1..n -> Scores] :
        \E q \in QuestionValues(n) : \E na \in Lengths(n) :
            \E pl \in WithOptional(WithOptional(WithOptional(
                         {[logits |-> lg]},
                         "adversarial", {[indices |-> <<0>>]}),
                         "questions", {List(Prefix(OverridePool, k)) : k \in {n, n + 1}}),
                         "context", {Str("o"), Str("")}) :
                Start([op |-> "from_sequence_classification", questions |-> q,
                       answers |-> Prefix(AnswerPool, na), context |-> None], pl)

InitGraph ==
    \E n \in 1..MaxN : \E lg \in [1..n -> Scores] :
        \E q \in QuestionValues(n) : \E na \in Lengths(n) : \E l \in 0..(MaxN - 1) :
            \E pl \in WithOptional(WithOptional(
                         {[logits |-> lg, labels |-> <<l>>, lm_subgraph |-> "lm",
                           attn_subgraph |-> "attn"]},
                         "adversarial", {[indices |-> <<0>>]}),
                         "questions", {List(Prefix(OverridePool, n + 1))}) :
                Start([op |-> "from_sequence_classification_with_graph",
                       questions |-> q, answers |-> Prefix(AnswerPool, na)], pl)

\* Contexts, context scores and attributions over one question.
InitQuestionAnswering ==
    \E n \in 1..MaxCands : \E f \in [1..n -> Outputs \X Scores] :
        \E ag \in Groupings(CandidateList(f)) :
            \E cc \in QAContextArguments(Len(ag)) :
                \E pl \in WithOptional({[answers |-> ag]}, "attributions",
                                       {List(AttributionList(Len(ag)))}) :
                    Start([op |-> "from_question_answering", questions |-> Str("q"),
                           context |-> cc[1], context_score |-> cc[2]], pl)

\* Questions and overrides of every shape, adversarial info.
InitQuestionAnsweringShapes ==
    \E n \in 1..MaxCands : \E f \in [1..n -> Outputs \X Scores] :
        \E ag \in Groupings(CandidateList(f)) :
            \E q \in QuestionValues(Len(ag)) :
                \E pl \in WithOptional(WithOptional(
                             {[answers |-> ag]},
                             "questions", {List(Prefix(OverridePool, Len(ag) + 1))}),
                             "adversarial", {[indices |-> <<0>>]}) :
                    Start([op |-> "from_question_answering", questions |-> q,
                           context |-> Str("c"), context_score |-> None], pl)

InitGeneration ==
    \E k \in 0..MaxN : \E q \in {Str("q"), List(<<"q1">>)} :
        \E c \in {None, Str("c"), Str("")} :
            \E pl \in WithOptional({[generated_texts |-> Prefix(AnswerPool, k)]},
                                   "attributions",
                                   {AttributionList(m) : m \in 0..k}) :
                Start([op |-> "from_generation", questions |-> q, context |-> c,
                       context_score |-> None], pl)

Init ==
    \/ InitKey
    \/ InitConstruct
    \/ InitDocumentsIter
    \/ InitExtend
    \/ InitExtendFewer
    \/ InitClassification
    \/ InitClassificationShapes
    \/ InitGraph
    \/ InitQuestionAnswering
    \/ InitQuestionAnsweringShapes
    \/ InitGeneration

\* What a strategy's call leaves in ret: the envelope or the exception, and (for
\* the checks) the list it handed to the constructor.
Returned(r) ==
    IF r.ret.status = "ok"
    THEN [status |-> "ok", value |-> r.ret.value, handed |-> r.handed]
    ELSE r.ret

SortPredictionsKey ==
    /\ req.op = "sort_predictions_key"
    /\ ret' = sort_predictions_key(req.p)
    /\ UNCHANGED <<req, payload>>

Construct ==
    /\ req.op = "QueryOutput"
    /\ ret' = Ok(QueryOutput(req.predictions, req.adversarial))
    /\ UNCHANGED <<req, payload>>

PredictionDocumentsIter ==
    /\ req.op = "_prediction_documents_iter_from_context"
    /\ ret' = _prediction_documents_iter_from_context(req.iter_len, req.context)
    /\ UNCHANGED <<req, payload>>

ExtendAndSort ==
    /\ req.op = "extend_and_sort_attributions_to_scores"
    /\ \E sort_idx \in argsort_reversed(req.scores) :
          LET r == extend_and_sort_attributions_to_scores(req.scores, payload, None,
                                                          sort_idx)
          IN  /\ ret' = Ok(r.value)
              /\ payload' = r.attributions
    /\ req' = [req EXCEPT !.attributions = payload]

FromSequenceClassification ==
    /\ req.op = "from_sequence_classification"
    /\ \E sort_idx \in argsort_reversed(payload.logits) :
          LET r == from_sequence_classification(req.questions, req.answers, payload,
                                                req.context, sort_idx)
          IN  /\ ret' = Returned(r)
              /\ payload' = r.model_api_output
    /\ UNCHANGED req

FromSequenceClassificationWithGraph ==
    /\ req.op = "from_sequence_classification_with_graph"
    /\ LET r == from_sequence_classification_with_graph(req.questions, req.answers,
                                                        payload)
       IN  /\ ret' = Returned(r)
           /\ payload' = r.model_api_output
    /\ UNCHANGED req

FromQuestionAnswering ==
    /\ req.op = "from_question_answering"
    /\ LET r == from_question_answering(req.questions, payload, req.context,
                                        req.context_score)
       IN  /\ ret' = Returned(r)
           /\ payload' = r.model_api_output
    /\ UNCHANGED req

FromGeneration ==
    /\ req.op = "from_generation"
    /\ LET r == from_generation(req.questions, payload, req.context, req.context_score)
       IN  /\ ret' = Returned(r)
           /\ payload' = r.model_api_output
    /\ UNCHANGED req

Next ==
    \/ SortPredictionsKey
    \/ Construct
    \/ PredictionDocumentsIter
    \/ ExtendAndSort
    \/ FromSequenceClassification
    \/ FromSequenceClassificationWithGraph
    \/ FromQuestionAnswering
    \/ FromGeneration

Spec == Init /\ [][Next]_vars

-----------------------------------------------------------------------------
(* Vocabulary of the properties *)

Called == ret.status # "none"
Returns == ret.status = "ok"
Fails == ret.status = "error"

\* The ranking key as the specification words it.
RankingKey(p) ==
    <<p.prediction_output.output # "" /\ p.prediction_output.output # "No answer found.",
      p.prediction_score,
      IF Len(p.prediction_documents) = 0 THEN 1
      ELSE p.prediction_documents[1].document_score>>

RankedHigher(k, l) ==
    \/ k[1] /\ ~l[1]
    \/ (k[1] <=> l[1]) /\ k[2] > l[2]
    \/ (k[1] <=> l[1]) /\ k[2] = l[2] /\ k[3] > l[3]

\* out is `given` in non-increasing order of the key, equal keys keeping the
\* order they had in `given`.
StablyRanked(out, given) ==
    /\ Len(out) = Len(given)
    /\ \E pi \in Permutations(Len(given)) :
          /\ \A i \in 1..Len(out) : out[i] = given[pi[i]]
          /\ \A i, j \in 1..Len(out) :
                i < j => /\ ~RankedHigher(RankingKey(out[j]), RankingKey(out[i]))
                         /\ RankingKey(out[i]) = RankingKey(out[j]) => pi[i] < pi[j]

\* The list handed to the constructor by the latest call.
HandedList == IF req.op = "QueryOutput" THEN req.predictions ELSE ret.handed

BuildsEnvelope == req.op \in Strategies \cup {"QueryOutput"}

\* The questions a strategy works with: the payload's override when it has a
\* non-empty one, else the caller's.
ResolvedQuestions ==
    IF "questions" \in DOMAIN payload /\ payload.questions.v # <<>>
    THEN payload.questions
    ELSE req.questions

QuestionAt(i) ==
    IF ResolvedQuestions.tag = "str" THEN ResolvedQuestions.v
    ELSE ResolvedQuestions.v[i]

-----------------------------------------------------------------------------
(* C1: every envelope built with adversarial absent, by the constructor or by *)
(* a conversion strategy, has its predictions in non-increasing order of the  *)
(* key (answer_found, prediction_score, lead_document_score), and            *)
(* predictions with equal keys keep the order of the list handed to the      *)
(* constructor.                                                              *)
C1_RankedWhenNotAdversarial ==
    (BuildsEnvelope /\ Returns /\ ret.value.adversarial = None)
        => StablyRanked(ret.value.predictions, HandedList)

\* The constructor moved a prediction, and two predictions of the result have
\* the same key.
C1_Witness ==
    /\ req.op = "QueryOutput" /\ Returns /\ req.adversarial = None
    /\ ret.value.predictions # req.predictions
    /\ \E i, j \in 1..Len(ret.value.predictions) :
          i < j /\ RankingKey(ret.value.predictions[i]) = RankingKey(ret.value.predictions[j])

-----------------------------------------------------------------------------
(* C2: from_sequence_classification on a payload with adversarial indices     *)
(* returns the predictions in the positional order of questions / logits /    *)
(* answers, and the envelope's adversarial indices are the payload's.         *)
HasAdversarialIndices ==
    "adversarial" \in DOMAIN payload /\ payload.adversarial # None

C2_AdversarialKeepsOrder ==
    (req.op = "from_sequence_classification" /\ HasAdversarialIndices /\ Returns)
        => /\ Len(ret.value.predictions) = Len(payload.logits)
           /\ \A i \in 1..Len(ret.value.predictions) :
                 /\ ret.value.predictions[i].question = QuestionAt(i)
                 /\ ret.value.predictions[i].prediction_score = payload.logits[i]
                 /\ ret.value.predictions[i].prediction_output.output = req.answers[i]
           /\ ret.value.adversarial.indices = payload.adversarial.indices

\* Returned with adversarial indices although the logits are not in descending
\* order.
C2_Witness ==
    /\ req.op = "from_sequence_classification" /\ HasAdversarialIndices /\ Returns
    /\ \E i, j \in 1..Len(payload.logits) : i < j /\ payload.logits[i] < payload.logits[j]

-----------------------------------------------------------------------------
(* C3: context expansion for n predictions.  None: no documents; a string X:  *)
(* one document with text X each; a list of n strings: prediction i gets one  *)
(* document with the i-th string; a list of another length: an error and no   *)
(* envelope; any other type: a type error.  Both for the helper itself and    *)
(* for from_sequence_classification with n answers, n logits and no context   *)
(* override.                                                                  *)
OneDocument(docs, text) == Len(docs) = 1 /\ docs[1].document = text

C3_Helper ==
    (req.op = "_prediction_documents_iter_from_context" /\ Called)
        => CASE req.context.tag = "None" ->
                   /\ Returns /\ Len(ret.value) = req.iter_len
                   /\ \A i \in 1..Len(ret.value) : Len(ret.value[i]) = 0
             [] req.context.tag = "str" ->
                   /\ Returns /\ Len(ret.value) = req.iter_len
                   /\ \A i \in 1..Len(ret.value) : OneDocument(ret.value[i], req.context.v)
             [] req.context.tag = "list" /\ Len(req.context.v) = req.iter_len ->
                   /\ Returns /\ Len(ret.value) = req.iter_len
                   /\ \A i \in 1..Len(ret.value) :
                         OneDocument(ret.value[i], req.context.v[i])
             [] req.context.tag = "list" /\ Len(req.context.v) # req.iter_len -> Fails
             [] OTHER -> Fails /\ ret.error = "TypeError"

\* The call is well shaped but for its context: n answers, n logits, questions
\* that fit, no more attributions than logits, no context override.
C3_WellShaped ==
    /\ req.op = "from_sequence_classification"
    /\ Len(req.answers) = Len(payload.logits)
    /\ ResolvedQuestions.tag = "list" => Len(ResolvedQuestions.v) = Len(payload.logits)
    /\ "attributions" \in DOMAIN payload => Len(payload.attributions) <= Len(payload.logits)
    /\ "context" \notin DOMAIN payload

\* The prediction built from position i is the one with the i-th answer.
C3_Strategy ==
    (C3_WellShaped /\ Called)
        => CASE req.context.tag = "None" ->
                   /\ Returns /\ Len(ret.value.predictions) = Len(req.answers)
                   /\ \A i \in 1..Len(ret.value.predictions) :
                         Len(ret.value.predictions[i].prediction_documents) = 0
             [] req.context.tag = "str" ->
                   /\ Returns /\ Len(ret.value.predictions) = Len(req.answers)
                   /\ \A i \in 1..Len(ret.value.predictions) :
                         OneDocument(ret.value.predictions[i].prediction_documents,
                                     req.context.v)
             [] req.context.tag = "list" /\ Len(req.context.v) = Len(req.answers) ->
                   /\ Returns /\ Len(ret.value.predictions) = Len(req.answers)
                   /\ \A i \in 1..Len(req.answers) :
                         \E k \in 1..Len(ret.value.predictions) :
                            /\ ret.value.predictions[k].prediction_output.output
                                  = req.answers[i]
                            /\ OneDocument(ret.value.predictions[k].prediction_documents,
                                           req.context.v[i])
             [] req.context.tag = "list" /\ Len(req.context.v) # Len(req.answers) -> Fails
             [] OTHER -> Fails /\ ret.error = "TypeError"

C3_ContextExpansion == C3_Helper /\ C3_Strategy

\* The strategy returned for a list of n >= 2 contexts, and ranking moved a
\* prediction away from its position.
C3_Witness ==
    /\ C3_WellShaped /\ Returns
    /\ req.context.tag = "list" /\ Len(req.context.v) >= 2
    /\ ret.value.predictions # ret.handed

-----------------------------------------------------------------------------
(* C4: for scores of length n and m <= n explanations (m = n included) the    *)
(* helper returns a list of length n where the k-th explanation sits at the   *)
(* position of the score of rank k, ranks by a stable descending order of the *)
(* scores (equal scores: earlier position first), the fill value elsewhere.   *)
StableRank(scores, pos) ==
    1 + Cardinality({j \in 1..Len(scores) :
                        \/ scores[j] > scores[pos]
                        \/ scores[j] = scores[pos] /\ j < pos})

C4_ExplanationsFollowRanks ==
    (/\ req.op = "extend_and_sort_attributions_to_scores" /\ Called
     /\ Len(req.attributions) <= Len(req.scores))
        => /\ Returns
           /\ Len(ret.value) = Len(req.scores)
           /\ \A pos \in 1..Len(req.scores) :
                 ret.value[pos] =
                    IF StableRank(req.scores, pos) <= Len(req.attributions)
                    THEN req.attributions[StableRank(req.scores, pos)]
                    ELSE None

-----------------------------------------------------------------------------
(* C5: from_generation with k >= 1 generated texts returns k predictions, one *)
(* per text, each with score 1, the text as output and one document holding   *)
(* the raw context; explanation j goes to candidate j, the others have none.  *)
C5_GenerationBuildsPredictions ==
    (req.op = "from_generation" /\ Called /\ Len(payload.generated_texts) >= 1)
        => /\ Returns
           /\ Len(ret.value.predictions) = Len(payload.generated_texts)
           /\ \A j \in 1..Len(payload.generated_texts) :
                 \E i \in 1..Len(ret.value.predictions) :
                    LET p == ret.value.predictions[i]
                    IN  /\ p.prediction_output.output = payload.generated_texts[j]
                        /\ p.prediction_score = 1
                        /\ Len(p.prediction_documents) = 1
                        /\ \/ req.context = None
                           \/ p.prediction_documents[1].document = req.context.v
                        /\ p.attributions =
                              IF /\ "attributions" \in DOMAIN payload
                                 /\ j <= Len(payload.attributions)
                              THEN payload.attributions[j] ELSE None

-----------------------------------------------------------------------------
(* C6: a call of a conversion strategy leaves the payload as it was, whether  *)
(* it returns or fails, and a second call with the same payload object and    *)
(* arguments gives what the first gave.                                       *)
C6_StrategiesArePure ==
    [][req.op \in Strategies => /\ payload' = payload
                                /\ Called => ret' = ret]_vars

-----------------------------------------------------------------------------
(* C7: sort_predictions_key gives a mapping the key of the Prediction parsed  *)
(* from it, also when the mapping omits defaulted fields; a value that is     *)
(* neither fails with a type error.                                           *)
C7_MappingKeyIsTypedKey ==
    (req.op = "sort_predictions_key" /\ Called)
        => CASE req.p.kind = "dict" ->
                   ret = sort_predictions_key(
                             [kind |-> "Prediction", v |-> ParsePrediction(req.p.v)])
             [] req.p.kind = "other" -> Fails /\ ret.error = "TypeError"
             [] OTHER -> TRUE

-----------------------------------------------------------------------------
(* C8: in the strategies that take questions (classification, with graph,     *)
(* question answering) a questions list, the caller's or the payload's, whose *)
(* length differs from the expected count makes the call fail: no envelope.   *)
(* Stated for calls whose answers are as many as the logits.                  *)
ExpectedCount ==
    IF req.op = "from_question_answering" THEN Len(payload.answers)
    ELSE Len(payload.logits)

C8_QuestionsMismatchFails ==
    (/\ req.op \in {"from_sequence_classification",
                    "from_sequence_classification_with_graph",
                    "from_question_answering"}
     /\ Called
     /\ "answers" \in DOMAIN req => Len(req.answers) = Len(payload.logits)
     /\ ResolvedQuestions.tag = "list"
     /\ Len(ResolvedQuestions.v) # ExpectedCount)
        => Fails

-----------------------------------------------------------------------------
(* C9: from_question_answering with one question string (or a list matching   *)
(* the answer groups) and no adversarial info returns one prediction per      *)
(* candidate over all pairs; a candidate with an empty answer text gives the  *)
(* output "No answer found."; every such prediction comes after every         *)
(* prediction of a candidate with a non-empty answer text.  Stated for calls  *)
(* whose groups have candidates and whose context and scores fit the pairs.   *)
RECURSIVE Flatten(_)
Flatten(groups) ==
    IF groups = <<>> THEN <<>> ELSE Head(groups) \o Flatten(Tail(groups))

QuestionsFit ==
    \/ ResolvedQuestions.tag = "str"
    \/ ResolvedQuestions.tag = "list" /\ Len(ResolvedQuestions.v) = ExpectedCount

RECURSIVE Offset(_, _)
Offset(groups, i) ==
    IF i <= 1 THEN 0 ELSE Len(groups[i - 1]) + Offset(groups, i - 1)

PairContext(i) ==
    IF req.context = None THEN ""
    ELSE IF req.context.tag = "list" THEN req.context.v[i] ELSE req.context.v

PairContextScore(i) ==
    IF req.context_score = None THEN 1
    ELSE IF req.context_score.tag = "list" THEN req.context_score.v[i]
    ELSE req.context_score.v

\* Candidates in every group, an explanation for every pair when there are
\* explanations, and context and scores of matching shapes.
ContextsFit ==
    /\ \A i \in 1..Len(payload.answers) : Len(payload.answers[i]) >= 1
    /\ "attributions" \in DOMAIN payload
          => Len(payload.attributions.v) >= Len(payload.answers)
    /\ req.context.tag = "list" => Len(req.context.v) = Len(payload.answers)
    /\ req.context_score.tag = "list"
          => /\ req.context.tag = "list"
             /\ Len(req.context_score.v) = Len(payload.answers)
    /\ req.context_score.tag = "float" => req.context.tag # "list"

\* pi[c] is the place in the returned list of the prediction built from
\* candidate c (the strategy builds them in the candidates' order).
C9_OnePredictionPerCandidate ==
    (/\ req.op = "from_question_answering" /\ Called
     /\ QuestionsFit /\ ContextsFit
     /\ "adversarial" \notin DOMAIN payload)
        => /\ Returns
           /\ LET cands == Flatten(payload.answers)
                  out == ret.value.predictions
              IN  /\ Len(out) = Len(cands)
                  /\ \E pi \in Permutations(Len(cands)) :
                        /\ \A c \in 1..Len(cands) : out[pi[c]] = ret.handed[c]
                        /\ \A c \in 1..Len(cands) :
                              cands[c].answer = ""
                                 => out[pi[c]].prediction_output.output = "No answer found."
                        /\ \A c, d \in 1..Len(cands) :
                              (cands[c].answer = "" /\ cands[d].answer # "")
                                 => pi[c] > pi[d]

-----------------------------------------------------------------------------
(* C10: in from_question_answering the prediction of every candidate of pair  *)
(* i has, when the pair's context text is non-empty, exactly one document     *)
(* with that text, the candidate's span and the pair's context score (1 when  *)
(* no scores are supplied, for a string and for a list context alike), and no *)
(* document when the context is absent or empty.                              *)
C10_DocumentsFollowContext ==
    (req.op = "from_question_answering" /\ Called /\ QuestionsFit /\ ContextsFit)
        => /\ Returns
           /\ \A i \in 1..Len(payload.answers) :
                 \A k \in 1..Len(payload.answers[i]) :
                    LET docs == ret.handed[Offset(payload.answers, i) + k].prediction_documents
                        cand == payload.answers[i][k]
                    IN  IF PairContext(i) # ""
                        THEN /\ Len(docs) = 1
                             /\ docs[1].document = PairContext(i)
                             /\ docs[1].span = <<cand.start, cand.end>>
                             /\ docs[1].document_score = PairContextScore(i)
                        ELSE Len(docs) = 0

-----------------------------------------------------------------------------
(* C11: from_sequence_classification_with_graph applies the ranking policy    *)
(* unless adversarial info is present.  When the payload carries adversarial  *)
(* indices, the returned envelope carries them and its predictions are in the *)
(* positional construction order; when it carries none, the predictions are   *)
(* ranked; in both cases exactly the prediction built from position labels[0] *)
(* has the graph-form explanation.                                            *)
GraphCallReturns ==
    req.op = "from_sequence_classification_with_graph" /\ Returns

\* The prediction at place i of the envelope is the one built from position k
\* (both counted from 1) of the questions / logits / answers.
BuiltFrom(i, k) ==
    /\ ret.value.predictions[i].question = QuestionAt(k)
    /\ ret.value.predictions[i].prediction_score = payload.logits[k]
    /\ ret.value.predictions[i].prediction_output.output = req.answers[k]

\* As many answers as logits, and one question or as many as logits.
GraphInputsFit ==
    /\ Len(req.answers) = Len(payload.logits)
    /\ ResolvedQuestions.tag = "list" => Len(ResolvedQuestions.v) = Len(payload.logits)

GraphAdversarialKept ==
    (GraphCallReturns /\ GraphInputsFit /\ HasAdversarialIndices)
        => /\ ret.value.adversarial # None
           /\ ret.value.adversarial.indices = payload.adversarial.indices
           /\ Len(ret.value.predictions) = Len(payload.logits)
           /\ \A i \in 1..Len(ret.value.predictions) : BuiltFrom(i, i)

GraphRankedOtherwise ==
    (GraphCallReturns /\ ~HasAdversarialIndices)
        => StablyRanked(ret.value.predictions, HandedList)

\* One prediction has the graph when labels[0] is a position that was built,
\* none otherwise; the one that has it was built from that position.
GraphOnLabelled ==
    GraphCallReturns
        => LET out == ret.value.predictions
               label == payload.labels[1] + 1
               with_graph == {i \in 1..Len(out) : out[i].prediction_graph # None}
           IN  /\ Cardinality(with_graph) = IF label <= Len(out) THEN 1 ELSE 0
               /\ \A i \in with_graph :
                     /\ BuiltFrom(i, label)
                     /\ out[i].prediction_graph =
                           PredictionGraph(payload.lm_subgraph, payload.attn_subgraph)

C11_GraphStrategyRankingPolicy ==
    /\ GraphAdversarialKept
    /\ GraphRankedOtherwise
    /\ GraphOnLabelled

====
